---- MODULE Spec2Model ----
(***************************************************************************)
(* Migration orchestration of the Oracle -> Elasticsearch migration tool.  *)
(* The HTTP handlers of routes/migration.py are translated from their code;*)
(* MigrationService (services/migration_service.py), which they call, is   *)
(* translated from section 4.4 / 4.5 of the specification.                 *)
(***************************************************************************)
EXTENDS Integers, Sequences, FiniteSets, TLC

\* ------------------------------------------------------------------ bounds
MaxJobs == 2
MaxTotal == 3
MaxPreviewLimit == 1
MaxPlanTotal == 9
MaxPlanSize == 6

\* ------------------------------------------------------- program constants
BatchSize == 2
DefaultPreviewLimit == 5
NoTotal == 0 - 1
NoLimit == 0 - 2

Configs == {"c1", "c2"}
NoConfig == "c404"
JobIds == 1..MaxJobs

VARIABLES
    jobs,            \* MigrationJob rows: id -> record
    batches,         \* MigrationBatch rows of each job: id -> sequence of records
    nextId,          \* next primary key of MigrationJob
    reqPc,           \* handlers that committed and have not yet called start_migration
    workerPc,        \* position of each job's background run
    stopRequested,   \* cooperative cancellation signals
    watermark,       \* stored watermark value of each mapping configuration
    destIndex,       \* document ids present in each destination index
    resp             \* the response of the last request answered

vars == <<jobs, batches, nextId, reqPc, workerPc, stopRequested, watermark, destIndex, resp>>

\* --------------------------------------------------------------- helpers
Min(a, b) == IF a < b THEN a ELSE b
Max(a, b) == IF a > b THEN a ELSE b

CfgOf(j) == jobs[j].mapping_configuration_id

\* --------------------------------------------------------- Batch Planner
\* Mutant: every window is given the full batch size.
RECURSIVE PlanFromFullWindows(_, _, _)
PlanFromFullWindows(offset, total, size) ==
    IF offset >= total THEN <<>>
    ELSE <<[offset |-> offset, limit |-> size]>>
         \o PlanFromFullWindows(offset + size, total, size)

RECURSIVE PlanFrom(_, _, _)
PlanFrom(offset, total, size) ==
    IF offset >= total THEN <<>>
    ELSE <<[offset |-> offset, limit |-> Min(size, total - offset)]>>
         \o PlanFrom(offset + size, total, size)

Plan(total, size) == PlanFrom(0, total, size)

NewBatch(w) ==
    [offset |-> w.offset, limit |-> w.limit, status |-> "pending",
     processed_records |-> 0, error_message |-> "None"]

\* ---------------------------------------------------------- model rows
NewJob(cfg, inc) ==
    [mapping_configuration_id |-> cfg, status |-> "pending", is_incremental |-> inc,
     total_records |-> NoTotal, processed_records |-> 0, failed_records |-> 0,
     start_time |-> "None", end_time |-> "None", error_message |-> "None",
     wm_base |-> 0]

NoRows == [k \in {} |-> 0]

Init ==
    /\ jobs = NoRows
    /\ batches = NoRows
    /\ nextId = 1
    /\ reqPc = NoRows
    /\ workerPc = NoRows
    /\ stopRequested = {}
    /\ watermark = [c \in Configs |-> 0]
    /\ destIndex = [c \in Configs |-> {}]
    /\ resp = "none"

\* Rows of table f restricted to the keys S, and table f with row k added.
Restrict(f, S) == [k \in S |-> f[k]]
Insert(f, k, v) == [x \in DOMAIN f \cup {k} |-> IF x = k THEN v ELSE f[x]]

BatchIdx(j) == 1..Len(batches[j])
WithStatus(j, st) == {i \in BatchIdx(j) : batches[j][i].status = st}
SetMin(S) == CHOOSE x \in S : \A y \in S : x <= y

\* ------------------------------------- MigrationService (specification 4.5)
\* Mutant: start_migration without the conflict check.
ConflictUnchecked(j) == FALSE

\* start_migration step 1: another job of the same configuration is running.
Conflict(j) ==
    \E k \in DOMAIN jobs :
        /\ k # j
        /\ jobs[k].mapping_configuration_id = jobs[j].mapping_configuration_id
        /\ jobs[k].status = "running"

\* start_migration(job_id): the synchronous entry; the run itself is background work.
start_migration(j) ==
    IF Conflict(j)
    THEN UNCHANGED <<jobs, workerPc, stopRequested>>
    ELSE /\ jobs' = [jobs EXCEPT ![j].status = "running", ![j].start_time = "set"]
         /\ workerPc' = [workerPc EXCEPT ![j] = "plan"]
         /\ stopRequested' = stopRequested \ {j}

\* stop_migration(job_id): sets the cancellation signal and returns.
stop_migration(j) == stopRequested' = stopRequested \cup {j}

\* ---------------------------------------------- routes/migration.py handlers
\* data.get('is_incremental', False): the last of the four assignments wins.
IsIncremental(data) == IF data = "absent" THEN FALSE ELSE data = "true"

\* create_job up to db.session.commit(): the pending MigrationJob row.
create_job(cfg, data) ==
    /\ nextId <= MaxJobs
    /\ IF cfg = NoConfig
       THEN /\ resp' = "500 NotFound"
            /\ UNCHANGED <<jobs, batches, nextId, reqPc, workerPc>>
       ELSE /\ jobs' = Insert(jobs, nextId, NewJob(cfg, IsIncremental(data)))
            /\ batches' = Insert(batches, nextId, <<>>)
            /\ workerPc' = Insert(workerPc, nextId, "idle")
            /\ reqPc' = Insert(reqPc, nextId, "create_job")
            /\ nextId' = nextId + 1
            /\ UNCHANGED resp
    /\ UNCHANGED <<stopRequested, watermark, destIndex>>

\* create_job from migration_service.start_migration(job.id) to its response.
create_job_start(j) ==
    /\ j \in DOMAIN reqPc
    /\ reqPc[j] = "create_job"
    /\ start_migration(j)
    /\ reqPc' = Restrict(reqPc, DOMAIN reqPc \ {j})
    /\ resp' = IF Conflict(j) THEN "500 ConflictError"
                ELSE "200 Migration job started successfully"
    /\ UNCHANGED <<batches, nextId, watermark, destIndex>>

\* Mutant: stop_job without the `job.status != 'running'` guard.
stop_job_unguarded(j) ==
    /\ IF j \notin DOMAIN jobs
       THEN /\ resp' = "500 NotFound"
            /\ UNCHANGED stopRequested
       ELSE /\ stop_migration(j)
            /\ resp' = "200 Migration job stopped"
    /\ UNCHANGED <<jobs, batches, nextId, reqPc, workerPc, watermark, destIndex>>

\* Mutant: stop_job marks the job stopped itself instead of signalling the run.
stop_job_preemptive(j) ==
    /\ IF j \notin DOMAIN jobs
       THEN /\ resp' = "500 NotFound"
            /\ UNCHANGED jobs
       ELSE IF jobs[j].status # "running"
       THEN /\ resp' = "400 Job is not running"
            /\ UNCHANGED jobs
       ELSE /\ jobs' = [jobs EXCEPT ![j].status = "stopped", ![j].end_time = "set"]
            /\ resp' = "200 Migration job stopped"
    /\ UNCHANGED <<batches, nextId, reqPc, workerPc, stopRequested, watermark, destIndex>>

\* stop_job
stop_job(j) ==
    /\ IF j \notin DOMAIN jobs
       THEN /\ resp' = "500 NotFound"
            /\ UNCHANGED stopRequested
       ELSE IF jobs[j].status # "running"
       THEN /\ resp' = "400 Job is not running"
            /\ UNCHANGED stopRequested
       ELSE /\ stop_migration(j)
            /\ resp' = "200 Migration job stopped"
    /\ UNCHANGED <<jobs, batches, nextId, reqPc, workerPc, watermark, destIndex>>

\* Mutant: the batch loop resets every batch, completed ones included.
ResetBatchAll(b) ==
    [b EXCEPT !.status = "pending", !.processed_records = 0, !.error_message = "None"]

\* retry_job: the batch loop body.
ResetBatch(b) ==
    IF b.status # "completed"
    THEN [b EXCEPT !.status = "pending", !.processed_records = 0, !.error_message = "None"]
    ELSE b

\* Mutant: the job-level reset without `job.failed_records = 0`.
ResetJobKeepFailed(job) ==
    [job EXCEPT !.status = "pending", !.processed_records = 0,
                !.start_time = "None", !.end_time = "None", !.error_message = "None"]

\* retry_job: the job-level reset.
ResetJob(job) ==
    [job EXCEPT !.status = "pending", !.processed_records = 0, !.failed_records = 0,
                !.start_time = "None", !.end_time = "None", !.error_message = "None"]

\* Mutant: retry_job without the test of job.status.
retry_job_unguarded(j) ==
    /\ IF j \notin DOMAIN jobs
       THEN /\ resp' = "500 NotFound"
            /\ UNCHANGED <<jobs, batches, reqPc>>
       ELSE /\ jobs' = [jobs EXCEPT ![j] = ResetJob(jobs[j])]
            /\ batches' = [batches EXCEPT ![j] = [i \in BatchIdx(j) |-> ResetBatch(batches[j][i])]]
            /\ reqPc' = Insert(reqPc, j, "retry_job")
            /\ UNCHANGED resp
    /\ UNCHANGED <<nextId, workerPc, stopRequested, watermark, destIndex>>

\* retry_job up to db.session.commit().
retry_job(j) ==
    /\ IF j \notin DOMAIN jobs
       THEN /\ resp' = "500 NotFound"
            /\ UNCHANGED <<jobs, batches, reqPc>>
       ELSE IF jobs[j].status # "failed"
       THEN /\ resp' = "400 Job has not failed"
            /\ UNCHANGED <<jobs, batches, reqPc>>
       ELSE /\ jobs' = [jobs EXCEPT ![j] = ResetJob(jobs[j])]
            /\ batches' = [batches EXCEPT ![j] = [i \in BatchIdx(j) |-> ResetBatch(batches[j][i])]]
            /\ reqPc' = Insert(reqPc, j, "retry_job")
            /\ UNCHANGED resp
    /\ UNCHANGED <<nextId, workerPc, stopRequested, watermark, destIndex>>

\* retry_job from migration_service.start_migration(job_id) to its response.
retry_job_start(j) ==
    /\ j \in DOMAIN reqPc
    /\ reqPc[j] = "retry_job"
    /\ start_migration(j)
    /\ reqPc' = Restrict(reqPc, DOMAIN reqPc \ {j})
    /\ resp' = IF Conflict(j) THEN "500 ConflictError"
                ELSE "200 Migration job restarted"
    /\ UNCHANGED <<batches, nextId, watermark, destIndex>>

\* Mutant: the filter also matches failed jobs.
FinishedJobs == {j \in DOMAIN jobs : jobs[j].status \in {"completed", "failed"}}

\* clear_completed_jobs: MigrationJob.query.filter_by(status='completed')
CompletedJobs == {j \in DOMAIN jobs : jobs[j].status = "completed"}

clear_completed_jobs ==
    LET keep == DOMAIN jobs \ CompletedJobs IN
    /\ jobs' = Restrict(jobs, keep)
    /\ batches' = Restrict(batches, keep)
    /\ workerPc' = Restrict(workerPc, keep)
    /\ reqPc' = Restrict(reqPc, DOMAIN reqPc \cap keep)
    /\ stopRequested' = stopRequested \cap keep
    /\ resp' = "200 deleted"
    /\ UNCHANGED <<nextId, watermark, destIndex>>

\* MigrationService.preview_migration: the query bounded to limit rows, transformed
\* and returned; nothing is written.
PreviewDocs(cfg, limit) == "200 preview"

\* preview_migration: data.get('limit', 5)
PreviewLimit(limit) == IF limit = NoLimit THEN DefaultPreviewLimit ELSE limit

\* Mutant: the preview bulk-indexes the documents it returns.
preview_migration_indexing(cfg, limit) ==
    /\ resp' = IF cfg = NoConfig THEN "500 NotFound" ELSE PreviewDocs(cfg, PreviewLimit(limit))
    /\ destIndex' = IF cfg = NoConfig THEN destIndex
                    ELSE [destIndex EXCEPT ![cfg] = @ \cup (1..PreviewLimit(limit))]
    /\ UNCHANGED <<jobs, batches, nextId, reqPc, workerPc, stopRequested, watermark>>

preview_migration(cfg, limit) ==
    /\ resp' = IF cfg = NoConfig THEN "500 NotFound" ELSE PreviewDocs(cfg, PreviewLimit(limit))
    /\ UNCHANGED <<jobs, batches, nextId, reqPc, workerPc, stopRequested, watermark, destIndex>>

\* ------------------- the background run of MigrationService (specification 4.5)
Running(j) == j \in DOMAIN jobs /\ jobs[j].status = "running"

\* Document ids of a window: the rows of the effective query, in order.
Docs(j, b) == {jobs[j].wm_base + b.offset + k : k \in 1..b.limit}

\* Step 3, first run: the Batch Planner's windows become the job's batches.
PlanBatches(j, total) ==
    /\ Running(j) /\ workerPc[j] = "plan"
    /\ jobs[j].total_records = NoTotal
    /\ total <= MaxTotal - (IF jobs[j].is_incremental THEN watermark[CfgOf(j)] ELSE 0)
    /\ LET windows == Plan(total, BatchSize) IN
       batches' = [batches EXCEPT ![j] = [i \in 1..Len(windows) |-> NewBatch(windows[i])]]
    /\ jobs' = [jobs EXCEPT ![j].total_records = total,
                            ![j].wm_base = IF jobs[j].is_incremental
                                           THEN watermark[CfgOf(j)] ELSE 0]
    /\ workerPc' = [workerPc EXCEPT ![j] = "loop"]
    /\ UNCHANGED <<resp, nextId, reqPc, stopRequested, watermark, destIndex>>

\* Step 3, retry: the existing batches are reused.
ReuseBatches(j) ==
    /\ Running(j) /\ workerPc[j] = "plan"
    /\ jobs[j].total_records # NoTotal
    /\ workerPc' = [workerPc EXCEPT ![j] = "loop"]
    /\ UNCHANGED <<resp, jobs, batches, nextId, reqPc, stopRequested, watermark, destIndex>>

\* ConnectionError / PlanningError: the run is aborted at once and the job set
\* to failed, while planning or with a batch in flight; no batch is written.
AbortRun(j) ==
    /\ Running(j) /\ workerPc[j] \in {"plan", "batch"}
    /\ jobs' = [jobs EXCEPT ![j].status = "failed", ![j].error_message = "error",
                            ![j].end_time = "set"]
    /\ workerPc' = [workerPc EXCEPT ![j] = "idle"]
    /\ stopRequested' = stopRequested \ {j}
    /\ UNCHANGED <<resp, batches, nextId, reqPc, watermark, destIndex>>

\* Step 4: the next batch in offset order goes pending -> running.
BeginBatch(j) ==
    /\ Running(j) /\ workerPc[j] = "loop"
    /\ j \notin stopRequested
    /\ WithStatus(j, "pending") # {}
    /\ LET i == SetMin(WithStatus(j, "pending")) IN
       batches' = [batches EXCEPT ![j][i].status = "running"]
    /\ workerPc' = [workerPc EXCEPT ![j] = "batch"]
    /\ UNCHANGED <<resp, jobs, nextId, reqPc, stopRequested, watermark, destIndex>>

\* Step 4: extracted, transformed and bulk-loaded; the batch is completed.
BatchSucceed(j) ==
    /\ Running(j) /\ workerPc[j] = "batch"
    /\ LET i == SetMin(WithStatus(j, "running"))
           b == batches[j][i] IN
       /\ batches' = [batches EXCEPT ![j][i].status = "completed",
                                     ![j][i].processed_records = b.limit]
       /\ jobs' = [jobs EXCEPT ![j].processed_records = @ + b.limit]
       /\ destIndex' = [destIndex EXCEPT ![CfgOf(j)] = @ \cup Docs(j, b)]
    /\ workerPc' = [workerPc EXCEPT ![j] = "loop"]
    /\ UNCHANGED <<resp, nextId, reqPc, stopRequested, watermark>>

\* Step 5: a batch-scoped error is recorded and the run goes on.
BatchFail(j) ==
    /\ Running(j) /\ workerPc[j] = "batch"
    /\ LET i == SetMin(WithStatus(j, "running"))
           b == batches[j][i] IN
       /\ batches' = [batches EXCEPT ![j][i].status = "failed",
                                     ![j][i].error_message = "error"]
       /\ jobs' = [jobs EXCEPT ![j].failed_records = @ + b.limit,
                               ![j].error_message = "error"]
    /\ workerPc' = [workerPc EXCEPT ![j] = "loop"]
    /\ UNCHANGED <<resp, nextId, reqPc, stopRequested, watermark, destIndex>>

\* Step 7: the cancellation signal is seen before the next batch starts.
ObserveStop(j) ==
    /\ Running(j) /\ workerPc[j] = "loop"
    /\ j \in stopRequested
    /\ WithStatus(j, "pending") # {}
    /\ jobs' = [jobs EXCEPT ![j].status = "stopped", ![j].end_time = "set"]
    /\ workerPc' = [workerPc EXCEPT ![j] = "idle"]
    /\ stopRequested' = stopRequested \ {j}
    /\ UNCHANGED <<resp, batches, nextId, reqPc, watermark, destIndex>>

\* Step 6: the maximum watermark value among the loaded rows.
ObservedWatermark(j) ==
    LET done == WithStatus(j, "completed") IN
    IF done = {} THEN watermark[CfgOf(j)]
    ELSE LET last == batches[j][CHOOSE i \in done : \A k \in done : k <= i] IN
         Max(watermark[CfgOf(j)], jobs[j].wm_base + last.offset + last.limit)

\* Mutant: the watermark advances whether or not a batch failed.
FinishRunAlwaysAdvance(j) ==
    /\ Running(j) /\ workerPc[j] = "loop"
    /\ WithStatus(j, "pending") = {}
    /\ LET ok == WithStatus(j, "failed") = {} IN
       /\ jobs' = [jobs EXCEPT ![j].status = IF ok THEN "completed" ELSE "failed",
                               ![j].end_time = "set"]
       /\ watermark' = IF jobs[j].is_incremental
                       THEN [watermark EXCEPT ![CfgOf(j)] = ObservedWatermark(j)]
                       ELSE watermark
    /\ workerPc' = [workerPc EXCEPT ![j] = "idle"]
    /\ stopRequested' = stopRequested \ {j}
    /\ UNCHANGED <<resp, batches, nextId, reqPc, destIndex>>

\* Step 6: every batch was visited.
FinishRun(j) ==
    /\ Running(j) /\ workerPc[j] = "loop"
    /\ WithStatus(j, "pending") = {}
    /\ LET ok == WithStatus(j, "failed") = {} IN
       /\ jobs' = [jobs EXCEPT ![j].status = IF ok THEN "completed" ELSE "failed",
                               ![j].end_time = "set"]
       /\ watermark' = IF ok /\ jobs[j].is_incremental
                       THEN [watermark EXCEPT ![CfgOf(j)] = ObservedWatermark(j)]
                       ELSE watermark
    /\ workerPc' = [workerPc EXCEPT ![j] = "idle"]
    /\ stopRequested' = stopRequested \ {j}
    /\ UNCHANGED <<resp, batches, nextId, reqPc, destIndex>>

\* ------------------------------------------------------------ specification
Requests(datas) ==
    \/ \E cfg \in Configs \cup {NoConfig}, data \in datas : create_job(cfg, data)
    \/ \E j \in JobIds : create_job_start(j)
    \/ \E j \in JobIds : stop_job(j)
    \/ \E j \in JobIds : retry_job(j)
    \/ \E j \in JobIds : retry_job_start(j)
    \/ clear_completed_jobs
    \/ \E cfg \in Configs \cup {NoConfig}, limit \in (0..MaxPreviewLimit) \cup {NoLimit} :
          preview_migration(cfg, limit)

Worker ==
    \/ \E j \in JobIds, total \in 0..MaxTotal : PlanBatches(j, total)
    \/ \E j \in JobIds : ReuseBatches(j)
    \/ \E j \in JobIds : AbortRun(j)
    \/ \E j \in JobIds : BeginBatch(j)
    \/ \E j \in JobIds : BatchSucceed(j)
    \/ \E j \in JobIds : BatchFail(j)
    \/ \E j \in JobIds : ObserveStop(j)
    \/ \E j \in JobIds : FinishRun(j)

\* Full runs only: no request asks for an incremental job.
Next == Requests({"absent", "false"}) \/ Worker

Spec == Init /\ [][Next]_vars

\* Full and incremental runs.
NextIncremental == Requests({"absent", "true", "false"}) \/ Worker

SpecIncremental == Init /\ [][NextIncremental]_vars

\* ------------------------------------------------ the Batch Planner alone
\* A planning request: a known total row count and a batch size, not yet planned.
PlanRequest(total, size) ==
    [total |-> total, batch_size |-> size, planned |-> FALSE, windows |-> <<>>]

InitPlanner ==
    /\ jobs = NoRows
    /\ batches = NoRows
    /\ nextId = 1
    /\ reqPc = NoRows
    /\ workerPc = NoRows
    /\ stopRequested = {}
    /\ watermark = [c \in Configs |-> 0]
    /\ destIndex = [c \in Configs |-> {}]
    /\ resp \in {PlanRequest(total, size) : total \in 0..MaxPlanTotal, size \in 1..MaxPlanSize}

\* plan(query, batch_size) for a full run: the windows are the answer.
PlanWindows ==
    /\ ~resp.planned
    /\ resp' = [resp EXCEPT !.planned = TRUE,
                            !.windows = Plan(resp.total, resp.batch_size)]
    /\ UNCHANGED <<jobs, batches, nextId, reqPc, workerPc, stopRequested, watermark, destIndex>>

NextPlanner == PlanWindows

SpecPlanner == InitPlanner /\ [][NextPlanner]_vars

\* ------------------------------------- the Type Mapper and its two callers
\* Python values None, 0, 10, 2 of data_precision / data_scale, as text.
NoneValue == "None"
NumberShapes ==
    { [precision |-> NoneValue, scale |-> NoneValue],
      [precision |-> "10", scale |-> "0"],
      [precision |-> "10", scale |-> "2"] }
NoShape == [precision |-> NoneValue, scale |-> NoneValue]

StartsWith(s, prefix) == Len(s) >= Len(prefix) /\ SubSeq(s, 1, Len(prefix)) = prefix
Contains(s, c) == \E i \in 1..Len(s) : SubSeq(s, i, i) = c

\* dict.get(key, default)
DictGet(d, key, default) == IF key \in DOMAIN d THEN d[key] ELSE default

type_mapping ==
    ("NUMBER" :> "long") @@ ("FLOAT" :> "float") @@ ("BINARY_FLOAT" :> "float") @@
    ("BINARY_DOUBLE" :> "double") @@ ("VARCHAR2" :> "text") @@ ("CHAR" :> "keyword") @@
    ("NVARCHAR2" :> "text") @@ ("NCHAR" :> "keyword") @@ ("CLOB" :> "text") @@
    ("NCLOB" :> "text") @@ ("DATE" :> "date") @@ ("TIMESTAMP" :> "date") @@
    ("TIMESTAMP WITH TIME ZONE" :> "date") @@
    ("TIMESTAMP WITH LOCAL TIME ZONE" :> "date") @@
    ("BLOB" :> "binary") @@ ("RAW" :> "binary") @@ ("LONG RAW" :> "binary")

\* Mutant: the table is indexed, with no default for a missing name.
_map_oracle_to_es_type_indexed(oracle_type) ==
    IF StartsWith(oracle_type, "NUMBER")
    THEN (IF Contains(oracle_type, ",") THEN "double" ELSE "long")
    ELSE IF oracle_type \in DOMAIN type_mapping THEN type_mapping[oracle_type]
    ELSE "KeyError"

_map_oracle_to_es_type(oracle_type) ==
    IF StartsWith(oracle_type, "NUMBER")
    THEN (IF Contains(oracle_type, ",") THEN "double" ELSE "long")
    ELSE DictGet(type_mapping, oracle_type, "keyword")

type_codes ==
    ("DB_TYPE_VARCHAR" :> "VARCHAR2") @@ ("DB_TYPE_CHAR" :> "CHAR") @@
    ("DB_TYPE_NUMBER" :> "NUMBER") @@ ("DB_TYPE_DATE" :> "DATE") @@
    ("DB_TYPE_TIMESTAMP" :> "TIMESTAMP") @@ ("DB_TYPE_CLOB" :> "CLOB") @@
    ("DB_TYPE_BLOB" :> "BLOB") @@ ("DB_TYPE_BINARY_FLOAT" :> "BINARY_FLOAT") @@
    ("DB_TYPE_BINARY_DOUBLE" :> "BINARY_DOUBLE")

_get_oracle_type_name(type_code) == DictGet(type_codes, type_code, "UNKNOWN")

\* data_type values of user_tab_columns rows: the table's names and others.
CatalogTypes ==
    DOMAIN type_mapping \cup
    {"TIMESTAMP(6)", "TIMESTAMP(6) WITH TIME ZONE", "LONG", "ROWID", "XMLTYPE",
     "INTERVAL DAY(2) TO SECOND(6)", "SDO_GEOMETRY"}

\* Names a caller can hand to the mapper, declared forms of NUMBER included.
TypeNames ==
    CatalogTypes \cup
    {"NUMBER(10)", "NUMBER(10,0)", "NUMBER(10,2)", "NUMBER(*,2)", "UNKNOWN", "number", ""}

\* Driver type codes of cursor.description entries.
TypeCodes ==
    DOMAIN type_codes \cup
    {"DB_TYPE_NVARCHAR", "DB_TYPE_NCHAR", "DB_TYPE_NCLOB", "DB_TYPE_RAW",
     "DB_TYPE_LONG", "DB_TYPE_ROWID", "DB_TYPE_TIMESTAMP_TZ", "DB_TYPE_TIMESTAMP_LTZ",
     "DB_TYPE_INTERVAL_DS", "DB_TYPE_JSON"}

ColumnNames == {"ID", "AMOUNT"}

\* One row of the catalogue query: only a NUMBER column carries precision and scale.
CatalogRows ==
    { [column_name |-> n, data_type |-> t, data_precision |-> sh.precision,
       data_scale |-> sh.scale, nullable |-> y] :
        n \in ColumnNames, t \in CatalogTypes \ {"NUMBER"}, sh \in {NoShape}, y \in {"Y", "N"} }
    \cup
    { [column_name |-> n, data_type |-> "NUMBER", data_precision |-> sh.precision,
       data_scale |-> sh.scale, nullable |-> y] :
        n \in ColumnNames, sh \in NumberShapes, y \in {"Y", "N"} }

\* One entry of cursor.description.
Descriptions ==
    { [name |-> n, type_code |-> c, precision |-> sh.precision, scale |-> sh.scale] :
        n \in ColumnNames, c \in TypeCodes \ {"DB_TYPE_NUMBER"}, sh \in {NoShape} }
    \cup
    { [name |-> n, type_code |-> "DB_TYPE_NUMBER", precision |-> sh.precision,
       scale |-> sh.scale] :
        n \in ColumnNames, sh \in NumberShapes }

InitTypes ==
    /\ jobs = NoRows
    /\ batches = NoRows
    /\ nextId = 1
    /\ reqPc = NoRows
    /\ workerPc = NoRows
    /\ stopRequested = {}
    /\ watermark = [c \in Configs |-> 0]
    /\ destIndex = [c \in Configs |-> {}]
    /\ resp = [op |-> "none"]

\* The column built for one fetched row.
get_table_columns(row) ==
    /\ resp' = [op |-> "get_table_columns",
                column_name |-> row.column_name,
                data_type |-> row.data_type,
                data_precision |-> row.data_precision,
                data_scale |-> row.data_scale,
                nullable |-> (row.nullable = "Y"),
                elasticsearch_type |-> _map_oracle_to_es_type(row.data_type)]
    /\ UNCHANGED <<jobs, batches, nextId, reqPc, workerPc, stopRequested, watermark, destIndex>>

\* The column built for one description entry; desc holds the scale, the column does not.
analyze_query(desc) ==
    /\ resp' = [op |-> "analyze_query",
                column_name |-> desc.name,
                type_code |-> desc.type_code,
                scale |-> desc.scale,
                oracle_type |-> _get_oracle_type_name(desc.type_code),
                elasticsearch_type |->
                    _map_oracle_to_es_type(_get_oracle_type_name(desc.type_code))]
    /\ UNCHANGED <<jobs, batches, nextId, reqPc, workerPc, stopRequested, watermark, destIndex>>

\* The mapper applied to a name.
map_type(oracle_type) ==
    /\ resp' = [op |-> "_map_oracle_to_es_type",
                oracle_type |-> oracle_type,
                elasticsearch_type |-> _map_oracle_to_es_type(oracle_type)]
    /\ UNCHANGED <<jobs, batches, nextId, reqPc, workerPc, stopRequested, watermark, destIndex>>

NextTypes ==
    \/ \E row \in CatalogRows : get_table_columns(row)
    \/ \E desc \in Descriptions : analyze_query(desc)
    \/ \E oracle_type \in TypeNames : map_type(oracle_type)

SpecTypes == InitTypes /\ [][NextTypes]_vars

\* ------------------------------------------------------------------ claims
RECURSIVE SumSeq(_)
SumSeq(s) == IF Len(s) = 0 THEN 0 ELSE Head(s) + SumSeq(Tail(s))

JobsOf(cfg) == {j \in DOMAIN jobs : jobs[j].mapping_configuration_id = cfg}

RunningSibling(j) ==
    \E k \in DOMAIN jobs : k # j /\ CfgOf(k) = CfgOf(j) /\ jobs[k].status = "running"

AtMostOneRunning(J) ==
    \A cfg \in Configs :
        Cardinality({j \in DOMAIN J : J[j].mapping_configuration_id = cfg
                                      /\ J[j].status = "running"}) <= 1

StartAnswered(j) == j \in DOMAIN reqPc /\ j \notin DOMAIN reqPc'

\* C1: at most one job of a mapping configuration is running at any time; a start
\* attempted while another job of the configuration runs is answered with the
\* conflict error, leaves the job pending, and the job is never run later.
C1_OneRunningPerConfiguration ==
    [][/\ AtMostOneRunning(jobs')
       /\ \A j \in DOMAIN reqPc :
            (StartAnswered(j) /\ RunningSibling(j)) =>
                /\ j \in DOMAIN jobs' /\ jobs'[j].status = "pending"
                /\ workerPc'[j] = "idle"
                /\ resp' = "500 ConflictError"
       /\ \A j \in DOMAIN jobs :
            (jobs[j].status = "pending" /\ j \notin DOMAIN reqPc) =>
                j \in DOMAIN jobs' /\ jobs'[j].status = "pending"
      ]_vars

C1_Witness ==
    \E j \in DOMAIN jobs :
        /\ jobs[j].status = "pending" /\ j \notin DOMAIN reqPc
        /\ RunningSibling(j)
        /\ resp = "500 ConflictError"

CompletedSum(B) ==
    SumSeq([i \in 1..Len(B) |->
                IF B[i].status = "completed" THEN B[i].processed_records ELSE 0])

RetryCommitted(j) ==
    /\ j \in DOMAIN jobs /\ j \in DOMAIN jobs'
    /\ jobs[j].status = "failed" /\ jobs'[j].status = "pending"

\* C2: right after retry_job the job's processed_records is the sum of the
\* processed_records of its completed batches, and a job's processed_records
\* never decreases.
C2_RetryPreservesProcessed ==
    [][\A j \in DOMAIN jobs \cap DOMAIN jobs' :
          /\ RetryCommitted(j) => jobs'[j].processed_records = CompletedSum(batches'[j])
          /\ jobs'[j].processed_records >= jobs[j].processed_records
      ]_vars

RunEnded(j) == workerPc[j] = "idle" /\ jobs[j].status \in {"completed", "failed"}

CompletedRows(j) ==
    SumSeq([i \in BatchIdx(j) |->
                IF batches[j][i].status = "completed" THEN batches[j][i].limit ELSE 0])

\* C3: a job with N batches, one failed and N-1 completed, ends failed with
\* processed_records equal to the rows of the N-1 completed batches; a job whose
\* batches all completed ends completed.
C3_PartialFailureIsolation ==
    \A j \in DOMAIN jobs :
        (RunEnded(j) /\ jobs[j].total_records # NoTotal) =>
            /\ (/\ Cardinality(WithStatus(j, "failed")) = 1
                /\ Cardinality(WithStatus(j, "completed")) = Len(batches[j]) - 1)
               => /\ jobs[j].status = "failed"
                  /\ jobs[j].processed_records = CompletedRows(j)
            /\ WithStatus(j, "completed") = BatchIdx(j) => jobs[j].status = "completed"

AtBoundary(j) ==
    /\ jobs[j].status = "running" /\ workerPc[j] = "loop"
    /\ j \in stopRequested
    /\ WithStatus(j, "pending") # {}

\* C4: when the run sees a stop request between two batches the job becomes
\* stopped, never failed; no batch is started; the batches already completed stay
\* completed; and a stopped job and its batches never change again.
C4_StopBetweenBatches ==
    [][\A j \in DOMAIN jobs :
          /\ j \in DOMAIN jobs' /\ AtBoundary(j) =>
                /\ jobs'[j].status \in {"running", "stopped"}
                /\ batches'[j] = batches[j]
          /\ (j \in DOMAIN jobs' /\ jobs[j].status # "stopped" /\ jobs'[j].status = "stopped") =>
                /\ AtBoundary(j)
                /\ WithStatus(j, "running") = {}
                /\ batches'[j] = batches[j]
          /\ jobs[j].status = "stopped" =>
                /\ j \in DOMAIN jobs'
                /\ jobs'[j] = jobs[j]
                /\ batches'[j] = batches[j]
      ]_vars

C4_Witness ==
    \E j \in DOMAIN jobs :
        /\ jobs[j].status = "stopped"
        /\ Len(batches[j]) >= 2
        /\ batches[j][1].status = "completed"
        /\ batches[j][Len(batches[j])].status = "pending"

\* C5: the stored watermark of a configuration changes only in the step in which
\* an incremental job of that configuration ends completed with no failed batch;
\* while an incremental job runs and when it ends failed or stopped the watermark
\* keeps the value it had.
C5_WatermarkOnlyOnSuccess ==
    [][/\ \A cfg \in Configs :
            watermark'[cfg] # watermark[cfg] =>
                \E j \in JobsOf(cfg) :
                    /\ jobs[j].is_incremental
                    /\ jobs[j].status = "running"
                    /\ jobs'[j].status = "completed"
                    /\ \A i \in 1..Len(batches'[j]) : batches'[j][i].status = "completed"
       /\ \A j \in DOMAIN jobs :
            (jobs[j].status = "running" /\ jobs[j].is_incremental
             /\ jobs'[j].status # "completed") =>
                watermark'[CfgOf(j)] = watermark[CfgOf(j)]
      ]_vars

C5_Witness ==
    \E j \in DOMAIN jobs :
        /\ jobs[j].is_incremental
        /\ RunEnded(j) /\ jobs[j].status = "failed"
        /\ WithStatus(j, "completed") # {} /\ WithStatus(j, "failed") # {}
        /\ watermark[CfgOf(j)] = jobs[j].wm_base

\* C6: a create_job whose start is rejected because another job of the
\* configuration is running leaves the MigrationJob and MigrationBatch tables as
\* they were before the request: the rejected job has no row.
C6_RejectedStartChangesNothing ==
    [][\A j \in DOMAIN reqPc :
          (reqPc[j] = "create_job" /\ StartAnswered(j) /\ RunningSibling(j)) =>
              /\ j \notin DOMAIN jobs'
              /\ j \notin DOMAIN batches'
      ]_vars

\* C7: stop_job on a job that is not running is answered 400 and changes neither
\* the job, nor its batches, nor the cancellation signals; a job becomes stopped
\* only from running.
C7_StopOnlyWhenRunning ==
    [][\A j \in DOMAIN jobs :
          /\ (stop_job(j) /\ jobs[j].status # "running") =>
                /\ resp' = "400 Job is not running"
                /\ UNCHANGED <<jobs, batches, workerPc, stopRequested>>
          /\ (j \in DOMAIN jobs' /\ jobs'[j].status = "stopped") =>
                jobs[j].status \in {"running", "stopped"}
      ]_vars

C7_Witness ==
    /\ resp = "400 Job is not running"
    /\ stopRequested = {}
    /\ \E j \in DOMAIN jobs : jobs[j].status = "failed"
    /\ \E j \in DOMAIN jobs : jobs[j].status = "stopped"

\* C8: once total_records is known, processed_records + failed_records <=
\* total_records.
C8_CountsWithinTotal ==
    \A j \in DOMAIN jobs :
        jobs[j].total_records # NoTotal =>
            jobs[j].processed_records + jobs[j].failed_records <= jobs[j].total_records

C8_Witness ==
    \E j \in DOMAIN jobs :
        /\ RunEnded(j) /\ jobs[j].status = "failed"
        /\ WithStatus(j, "completed") # {}
        /\ jobs[j].processed_records = 0
        /\ jobs[j].failed_records > 0

Removed == DOMAIN jobs \ DOMAIN jobs'

\* C9: rows are removed only by clear_completed_jobs; it removes exactly the jobs
\* that are completed, with their batches, and leaves every other job and its
\* batches unchanged.
C9_OnlyCompletedJobsCleared ==
    [][/\ DOMAIN batches' = DOMAIN jobs'
       /\ \A j \in Removed : jobs[j].status = "completed"
       /\ Removed # {} =>
            /\ clear_completed_jobs
            /\ Removed = {j \in DOMAIN jobs : jobs[j].status = "completed"}
            /\ \A k \in DOMAIN jobs' : jobs'[k] = jobs[k] /\ batches'[k] = batches[k]
       /\ clear_completed_jobs =>
            DOMAIN jobs' = {j \in DOMAIN jobs : jobs[j].status # "completed"}
      ]_vars

C9_Witness ==
    /\ resp = "200 deleted"
    /\ \E j \in 1..(nextId - 1) : j \notin DOMAIN jobs
    /\ \E k \in DOMAIN jobs : jobs[k].status = "running" /\ WithStatus(k, "running") # {}

\* C10: preview_migration, for every valid configuration and every limit >= 0,
\* changes no job, no batch and no destination index.
C10_PreviewChangesNothing ==
    [][\A cfg \in Configs, limit \in (0..MaxPreviewLimit) \cup {NoLimit} :
          preview_migration(cfg, limit) =>
              UNCHANGED <<jobs, batches, nextId, reqPc, workerPc, stopRequested,
                          watermark, destIndex>>
      ]_vars

C10_Witness ==
    /\ resp = "200 preview"
    /\ \E j \in DOMAIN jobs : jobs[j].status = "running"
    /\ \E cfg \in Configs : destIndex[cfg] # {}

CeilDiv(a, b) == (a + b - 1) \div b

\* C11: for a total T >= 0 and a batch size B >= 1 the planner answers with
\* ceil(T/B) windows, in offset order, each of limit 1..B, the first at offset 0,
\* each starting where the one before ends, the last ending at T.
C11_PlannerCoversTotal ==
    resp.planned =>
        LET w == resp.windows
            n == Len(w) IN
        /\ n = CeilDiv(resp.total, resp.batch_size)
        /\ \A i \in 1..n : w[i].limit >= 1 /\ w[i].limit <= resp.batch_size
        /\ n > 0 => w[1].offset = 0 /\ w[n].offset + w[n].limit = resp.total
        /\ \A i \in 1..(n - 1) : w[i + 1].offset = w[i].offset + w[i].limit

C11_Witness ==
    /\ resp.planned
    /\ Len(resp.windows) >= 3
    /\ resp.windows[Len(resp.windows)].limit < resp.batch_size

IntegerTypes == {"long"}
FloatingTypes == {"float", "double"}
DestinationTypes == {"long", "float", "double", "text", "keyword", "date", "binary"}

\* The scale of the NUMBER column an introspection answer is about, if it is one.
NumberColumnScale ==
    IF resp.op = "get_table_columns" /\ resp.data_type = "NUMBER" THEN {resp.data_scale}
    ELSE IF resp.op = "analyze_query" /\ resp.type_code = "DB_TYPE_NUMBER" THEN {resp.scale}
    ELSE {}

\* C12: the destination type that get_table_columns and analyze_query give a
\* NUMBER column is the integer type when the column has no scale and a
\* floating-point type when its scale is not zero.
C12_NumberScaleDecidesType ==
    \A scale \in NumberColumnScale :
        /\ scale = NoneValue => resp.elasticsearch_type \in IntegerTypes
        /\ scale \notin {NoneValue, "0"} => resp.elasticsearch_type \in FloatingTypes

\* The name handed to the mapper in the last answer.
MappedName ==
    IF resp.op = "get_table_columns" THEN resp.data_type ELSE resp.oracle_type

Recognized(oracle_type) ==
    oracle_type \in DOMAIN type_mapping \/ StartsWith(oracle_type, "NUMBER")

\* C13: whatever name the mapper is given, recognized or not, 'UNKNOWN' of an
\* unrecognized driver type code included, the answer is a destination type,
\* never an error, and it is keyword for every unrecognized name.
C13_TypeMapperTotal ==
    resp.op # "none" =>
        /\ resp.elasticsearch_type \in DestinationTypes
        /\ ~Recognized(MappedName) => resp.elasticsearch_type = "keyword"

C13_Witness ==
    /\ resp.op = "analyze_query"
    /\ resp.type_code \notin DOMAIN type_codes
    /\ resp.oracle_type = "UNKNOWN"
    /\ resp.elasticsearch_type = "keyword"

BatchSteps == {<<"pending", "running">>, <<"running", "completed">>, <<"running", "failed">>}

\* C14: a batch's status changes only pending -> running -> {completed, failed},
\* or failed -> pending in the step that commits a retry of its job; no running
\* batch goes back to pending and no completed batch changes status.
C14_BatchStatusTransitions ==
    [][\A j \in DOMAIN batches \cap DOMAIN batches' :
          \A i \in DOMAIN batches[j] \cap DOMAIN batches'[j] :
              LET before == batches[j][i].status
                  after == batches'[j][i].status IN
              before # after =>
                  \/ <<before, after>> \in BatchSteps
                  \/ before = "failed" /\ after = "pending" /\ RetryCommitted(j)
      ]_vars

\* C15: the step that commits a retry keeps the job's batch rows: as many as
\* before, each with its offset and limit; a completed batch is left as it was,
\* and every other batch is pending with processed_records 0 and no error.
C15_RetryReusesBatches ==
    [][\A j \in DOMAIN jobs :
          RetryCommitted(j) =>
              /\ DOMAIN batches'[j] = DOMAIN batches[j]
              /\ \A i \in DOMAIN batches[j] :
                    LET b == batches[j][i]
                        c == batches'[j][i] IN
                    /\ c.offset = b.offset /\ c.limit = b.limit
                    /\ b.status = "completed" => c = b
                    /\ b.status # "completed" =>
                          /\ c.status = "pending"
                          /\ c.processed_records = 0
                          /\ c.error_message = "None"
      ]_vars

C15_Witness ==
    \E j \in DOMAIN jobs :
        /\ j \in DOMAIN reqPc /\ reqPc[j] = "retry_job"
        /\ jobs[j].status = "pending"
        /\ \E i \in BatchIdx(j) :
              batches[j][i].status = "completed" /\ batches[j][i].processed_records > 0
        /\ \E i \in BatchIdx(j) : batches[j][i].status = "pending"

\* C16: a retry of a job that is not failed is answered 400 and changes no job
\* and no batch; a failed job stops being failed only in a step of retry_job,
\* which leaves it pending.
C16_FailedLeftOnlyByRetry ==
    [][\A j \in DOMAIN jobs :
          /\ (retry_job(j) /\ jobs[j].status # "failed") =>
                /\ resp' = "400 Job has not failed"
                /\ UNCHANGED <<jobs, batches, reqPc, workerPc>>
          /\ (jobs[j].status = "failed"
              /\ (j \notin DOMAIN jobs' \/ jobs'[j].status # "failed")) =>
                /\ retry_job(j)
                /\ j \in DOMAIN jobs' /\ jobs'[j].status = "pending"
      ]_vars

C16_Witness ==
    /\ resp = "400 Job has not failed"
    /\ \E j \in DOMAIN jobs : jobs[j].status \in {"running", "completed", "stopped"}
    /\ \E j \in DOMAIN jobs : jobs[j].status = "failed"

====
